---- MODULE Spec2Model ----
(***************************************************************************)
(* A model of vttcompressor.py: the image references of a Foundry world,   *)
(* their resolution against the disk, the three repair passes, the webp    *)
(* conversion, the export of the documents and the trash folder.           *)
(*                                                                         *)
(* Paths are records [root, dir, stem, ext]: root "rel" is a path relative *)
(* to the process root (the user data folder, os.chdir at line 1493), root *)
(* "core" one below the absolute core data folder.  A stem is a sequence   *)
(* of tokens, a token one character or one percent escape, so that         *)
(* quoting, unquoting, lower-casing and the hyphen rules act on it as they *)
(* act on the string.  File semantics are those of POSIX (rename replaces  *)
(* its target, glob patterns are case sensitive).                          *)
(***************************************************************************)
EXTENDS Integers, Sequences, FiniteSets, TLC

(***************************************************************************)
(* Bounds of the model.                                                    *)
(***************************************************************************)
MaxFiles == 2     \* image files on disk in the initial state
MaxLeaves == 2    \* string leaves holding image references, over all documents
MaxData == 1      \* distinct picture contents
MaxReruns == 1    \* times a pass is run again right after it ran
MaxQueued == 2    \* paths a caller has put in the trash queue
MaxPictures == 2  \* distinct pictures when the conversion is run on its own

(***************************************************************************)
(* Paths.                                                                  *)
(***************************************************************************)
WorldDir == <<"worlds", "w">>

TrashDir == WorldDir \o <<"_trash">>

NoPath == [root |-> "none", dir |-> <<>>, stem |-> <<>>, ext |-> ""]

NoEnc == "None"

NoHash == <<"None">>

MkPath(root, dir, stem, ext) == [root |-> root, dir |-> dir, stem |-> stem, ext |-> ext]

IsPrefix(s, t) == Len(s) <= Len(t) /\ SubSeq(t, 1, Len(s)) = s

\* Path.is_file()
is_file(disk, p) == p \in DOMAIN disk

\* self.world_folder in ref_path.parents
InParents(folder, p) == p.root = "rel" /\ IsPrefix(folder, p.dir)

\* self.core_data_folder / self.ref_path
CoreJoin(p) == IF p.root = "rel" THEN [p EXCEPT !.root = "core"] ELSE p

LowerTok(t) ==
    CASE t = "A" -> "a"
      [] t = "B" -> "b"
      [] t = "PNG" -> "png"
      [] t = "JPG" -> "jpg"
      [] OTHER -> t

\* urllib.parse.unquote on one token
UnquoteTok(t) ==
    CASE t = "%20" -> " "
      [] t = "%2520" -> "%20"
      [] t = "%252520" -> "%2520"
      [] OTHER -> t

\* urllib.parse.quote on one token
QuoteTok(t) ==
    CASE t = " " -> "%20"
      [] t = "%20" -> "%2520"
      [] t = "%2520" -> "%252520"
      [] OTHER -> t

\* Path(urllib.parse.unquote(str(p))): directory names hold no escapes here
Unquote(p) == [p EXCEPT !.stem = [i \in 1..Len(p.stem) |-> UnquoteTok(p.stem[i])]]

\* str(ref_path).startswith("http")
StartsWithHttp(p) == p.root = "rel" /\ Len(p.dir) > 0 /\ p.dir[1] \in {"http:", "https:"}

HyphenTok(t) == IF t = " " THEN "-" ELSE t

\* re.sub('-+', "-", stem)
RECURSIVE CollapseHyphens(_)
CollapseHyphens(s) ==
    IF Len(s) <= 1 THEN s
    ELSE IF s[1] = "-" /\ s[2] = "-" THEN CollapseHyphens(Tail(s))
    ELSE <<s[1]>> \o CollapseHyphens(Tail(s))

\* the stem of the webp copy, lines 414-417
SanitizeStem(stem) ==
    LET hyphened == [i \in 1..Len(stem) |-> LowerTok(HyphenTok(stem[i]))]
        collapsed == CollapseHyphens(hyphened)
    IN  [i \in 1..Len(collapsed) |-> QuoteTok(collapsed[i])]

(***************************************************************************)
(* File contents.  A file's bytes are [sig, id]: the image signature that  *)
(* imghdr reads and the picture they hold.                                 *)
(***************************************************************************)
\* imghdr.what(path)
imghdr_what(bytes) == IF bytes.sig = "none" THEN NoEnc ELSE bytes.sig

\* mimetypes.guess_type(path)[0].split('/')[1].lower()
mime_guess(ext) ==
    LET e == LowerTok(ext) IN
    CASE e = "png" -> "png"
      [] e \in {"jpg", "jpeg"} -> "jpeg"
      [] e = "webp" -> "webp"
      [] OTHER -> NoEnc

\* hashlib.md5(bytes).hexdigest(): equal digests exactly for equal bytes
md5(bytes) == <<"md5", bytes.sig, bytes.id>>

\* ffmpeg -c:v libwebp: the picture re-encoded
webp_of(bytes) == [sig |-> "webp", id |-> bytes.id]

\* what a failed encoder run may leave at its destination
PartialBytes == [sig |-> "none", id |-> 0]

Tri(b) == IF b THEN "True" ELSE "False"

(***************************************************************************)
(* ImageReference.set_editable_attributes: the facts of a reference for a  *)
(* declared path, against the disk as it is now.                           *)
(***************************************************************************)
\* the percent-decoded path tried before the core data folder
ResolveOnDisk_decoded_first(disk, ref_path) ==
    IF is_file(disk, ref_path) THEN ref_path
    ELSE IF is_file(disk, Unquote(ref_path)) THEN Unquote(ref_path)
    ELSE IF is_file(disk, CoreJoin(ref_path)) THEN CoreJoin(ref_path)
    ELSE NoPath

\* lines 379-393: the file a declared path resolves to
ResolveOnDisk(disk, ref_path) ==
    IF is_file(disk, ref_path) THEN ref_path
    ELSE IF is_file(disk, CoreJoin(ref_path)) THEN CoreJoin(ref_path)
    ELSE IF is_file(disk, Unquote(ref_path)) THEN Unquote(ref_path)
    ELSE NoPath

DetectEncoding(disk, p) ==
    IF imghdr_what(disk[p]) # NoEnc THEN imghdr_what(disk[p]) ELSE mime_guess(p.ext)

\* lines 424-436: the extension of the file against its encoding
ExtensionMatches(enc, p) ==
    IF enc = "jpeg" THEN LowerTok(p.ext) \in {"jpeg", "jpg"} ELSE LowerTok(p.ext) = enc

RefInWorldFolder(ref_path) == InParents(WorldDir, ref_path)

HashOf(disk, p, in_world) == IF in_world THEN md5(disk[p]) ELSE NoHash

set_editable_attributes(self, ref_path, disk) ==
    LET in_world == RefInWorldFolder(ref_path)
        on_disk == ResolveOnDisk(disk, ref_path)
        exists == on_disk # NoPath
        enc == IF exists THEN DetectEncoding(disk, on_disk) ELSE NoEnc
        is_webp == IF exists THEN LowerTok(ref_path.ext) = "webp" ELSE self.is_webp
        webp == IF exists
                THEN [ref_path EXCEPT !.stem = SanitizeStem(on_disk.stem), !.ext = "webp"]
                ELSE self.webp_ref_path
    IN  [self EXCEPT
            !.ref_path = ref_path,
            !.ref_img_in_world_folder = in_world,
            !.img_path_on_disk = on_disk,
            !.img_exists = exists,
            !.img_encoding = enc,
            !.img_hash = IF exists THEN HashOf(disk, on_disk, in_world) ELSE self.img_hash,
            !.is_webp = is_webp,
            !.webp_ref_path = webp,
            !.webp_copy_exists =
                IF ~exists THEN self.webp_copy_exists
                ELSE IF is_webp THEN "None" ELSE Tri(is_file(disk, webp)),
            !.correct_extension =
                IF enc = NoEnc THEN "None" ELSE Tri(ExtensionMatches(enc, on_disk)),
            !.img_ref_external_web_link = StartsWithHttp(ref_path)]

(***************************************************************************)
(* JSON values.  A value is [t, leaf, kids]: t is "obj", "arr", "str" or   *)
(* "num"; kids are the [k, v] members of an object or the items of an      *)
(* array (k unused).  A string leaf is [html, srcs]: a bare string that is *)
(* one path (html FALSE, one src), an HTML chunk with its img elements'    *)
(* src attributes in element order (html TRUE), or a string naming no      *)
(* image (no srcs).  t "sur" is a string that names no image and holds a   *)
(* lone surrogate, as json.loads returns for the escape \ud83d without its *)
(* pair.                                                                   *)
(***************************************************************************)
NoLeaf == [html |-> FALSE, srcs |-> <<>>]

VStr(leaf) == [t |-> "str", leaf |-> leaf, kids |-> <<>>]

VSur == [t |-> "sur", leaf |-> NoLeaf, kids |-> <<>>]

VNum == [t |-> "num", leaf |-> NoLeaf, kids |-> <<>>]

VObj(kids) == [t |-> "obj", leaf |-> NoLeaf, kids |-> kids]

VArr(items) == [t |-> "arr", leaf |-> NoLeaf, kids |-> [i \in 1..Len(items) |-> [k |-> "", v |-> items[i]]]]

\* one step of an address: a key of an object or an index of a list
AKey(k) == [a |-> "key", key |-> k, idx |-> 0]

AIdx(i) == [a |-> "idx", key |-> "", idx |-> i]

\* dict_walker: the leaves of a record with their addresses, in document order
RECURSIVE dict_walker(_, _)
RECURSIVE WalkKids(_, _, _)
RECURSIVE WalkItems(_, _, _, _)
dict_walker(in_dict, pre) ==
    IF in_dict.t = "obj" THEN WalkKids(in_dict.kids, 1, pre)
    ELSE <<[addr |-> pre, val |-> in_dict]>>

WalkKids(kids, n, pre) ==
    IF n > Len(kids) THEN <<>>
    ELSE LET key == kids[n].k
             value == kids[n].v
             here == IF value.t = "obj" THEN dict_walker(value, pre \o <<AKey(key)>>)
                     ELSE IF value.t = "arr" THEN WalkItems(value.kids, 1, key, pre)
                     ELSE <<[addr |-> pre \o <<AKey(key)>>, val |-> value]>>
         IN  here \o WalkKids(kids, n + 1, pre)

WalkItems(items, i, key, pre) ==
    IF i > Len(items) THEN <<>>
    ELSE dict_walker(items[i].v, pre \o <<AKey(key), AIdx(i - 1)>>)
         \o WalkItems(items, i + 1, key, pre)

\* in_dict[step]: defined for a key of an object that has it, an index of a list
CanIndex(in_dict, step) ==
    \/ /\ in_dict.t = "obj"
       /\ step.a = "key"
       /\ \E n \in 1..Len(in_dict.kids) : in_dict.kids[n].k = step.key
    \/ /\ in_dict.t = "arr"
       /\ step.a = "idx"
       /\ step.idx + 1 \in 1..Len(in_dict.kids)

KidAt(in_dict, step) ==
    IF in_dict.t = "obj"
    THEN CHOOSE n \in 1..Len(in_dict.kids) : in_dict.kids[n].k = step.key
    ELSE step.idx + 1

\* get_nested_dict_recursive raises (IndexError, KeyError, TypeError) exactly when
\* this is FALSE
RECURSIVE CanAddress(_, _)
CanAddress(in_dict, dict_address) ==
    /\ Len(dict_address) >= 1
    /\ CanIndex(in_dict, dict_address[1])
    /\ \/ Len(dict_address) = 1
       \/ CanAddress(in_dict.kids[KidAt(in_dict, dict_address[1])].v, Tail(dict_address))

RECURSIVE get_nested_dict_recursive(_, _)
get_nested_dict_recursive(in_dict, dict_address) ==
    IF Len(dict_address) = 1
    THEN in_dict.kids[KidAt(in_dict, dict_address[1])].v
    ELSE get_nested_dict_recursive(in_dict.kids[KidAt(in_dict, dict_address[1])].v,
                                   Tail(dict_address))

RECURSIVE edit_nested_dict_recursive(_, _, _)
edit_nested_dict_recursive(in_dict, dict_address, new_value) ==
    LET n == KidAt(in_dict, dict_address[1]) IN
    IF Len(dict_address) = 1
    THEN [in_dict EXCEPT !.kids[n].v = new_value]
    ELSE [in_dict EXCEPT !.kids[n].v =
             edit_nested_dict_recursive(in_dict.kids[n].v, Tail(dict_address), new_value)]

(***************************************************************************)
(* The loaded documents, self.files: a sequence of documents               *)
(* [ftype, name, recs], the "json" documents before the "db" ones (the     *)
(* order of the two dictionaries of load_data).  recs is the list held for *)
(* the document: the lines of a db file, the one value of a json file.     *)
(***************************************************************************)
\* self.file_reference of a reference, lines 301-304: the record of a db file,
\* but the whole one-element list of a json file
FileReference(docs, ref) ==
    IF ref.ref_file_type = "db"
    THEN docs[ref.ref_file_path].recs[ref.ref_file_line + 1]
    ELSE VArr(docs[ref.ref_file_path].recs)

\* whether get_img_ref_content and push_updated_content_to_world can address the leaf
CanReach(docs, ref) == CanAddress(FileReference(docs, ref), ref.json_address)

get_img_ref_content(docs, ref) ==
    get_nested_dict_recursive(FileReference(docs, ref), ref.json_address).leaf

push_updated_content_to_world(docs, ref, updated_content) ==
    LET d == FileReference(docs, ref)
        edited == edit_nested_dict_recursive(d, ref.json_address, VStr(updated_content))
    IN  IF ref.ref_file_type = "db"
        THEN [docs EXCEPT ![ref.ref_file_path].recs[ref.ref_file_line + 1] = edited]
        ELSE [docs EXCEPT ![ref.ref_file_path].recs =
                 [i \in 1..Len(edited.kids) |-> edited.kids[i].v]]

\* str.replace(str(old), str(new)) on a leaf: every occurrence of the path
str_replace(leaf, old, new) ==
    [leaf EXCEPT !.srcs = [i \in 1..Len(leaf.srcs) |->
                              IF leaf.srcs[i] = old THEN new ELSE leaf.srcs[i]]]

(***************************************************************************)
(* The scan: WorldRefs.find_all_img_references_in_world.                   *)
(***************************************************************************)
ImgExts == {"webp", "jpg", "jpeg", "png"}

\* regex_img_exp.findall(item_content), the pattern of line 730: case sensitive
\* and found anywhere in the text, in the extension or before it
MatchesImgRegex(leaf) ==
    \E i \in 1..Len(leaf.srcs) :
        \/ leaf.srcs[i].ext \in ImgExts
        \/ \E t \in 1..Len(leaf.srcs[i].stem) :
               leaf.srcs[i].stem[t] \in {".webp", ".jpg", ".jpeg", ".png"}

\* the keys of unique_img_refs_in_html, lines 747-752: first occurrences, in order
RECURSIVE UniqueInOrder(_)
UniqueInOrder(s) ==
    IF s = <<>> THEN <<>>
    ELSE LET init == UniqueInOrder(SubSeq(s, 1, Len(s) - 1))
             x == s[Len(s)]
         IN  IF \E i \in 1..Len(init) : init[i] = x THEN init ELSE Append(init, x)

\* hashlib.sha256(str(string_to_hash).encode()).hexdigest(), lines 305-310: the
\* digest of the document path, the document kind, the line and the address
sha256(string_to_hash) == <<"sha256", string_to_hash>>

\* a reference whose id is hashed from its content as well
NewImageReference_id_of_content(ref_file_type, ref_file_path, ref_file_line, item, ref_path, disk) ==
    set_editable_attributes(
        [ref_file_type |-> ref_file_type,
         ref_file_path |-> ref_file_path,
         ref_file_line |-> ref_file_line,
         json_address |-> item.addr,
         ref_id |-> sha256(<<ref_file_path, ref_file_type, ref_file_line, item.addr, ref_path>>),
         img_ref_content_is_html |-> item.val.leaf.html,
         img_hash |-> NoHash,
         is_webp |-> FALSE,
         ref_path |-> NoPath,
         ref_img_in_world_folder |-> FALSE,
         img_path_on_disk |-> NoPath,
         img_exists |-> FALSE,
         img_encoding |-> NoEnc,
         webp_ref_path |-> NoPath,
         webp_copy_exists |-> "None",
         correct_extension |-> "None",
         img_ref_external_web_link |-> FALSE],
        ref_path, disk)

\* ImageReference.__init__; a line of -1 is None
NewImageReference(ref_file_type, ref_file_path, ref_file_line, item, ref_path, disk) ==
    set_editable_attributes(
        [ref_file_type |-> ref_file_type,
         ref_file_path |-> ref_file_path,
         ref_file_line |-> ref_file_line,
         json_address |-> item.addr,
         ref_id |-> sha256(<<ref_file_path, ref_file_type, ref_file_line, item.addr>>),
         img_ref_content_is_html |-> item.val.leaf.html,
         img_hash |-> NoHash,
         is_webp |-> FALSE,
         ref_path |-> NoPath,
         ref_img_in_world_folder |-> FALSE,
         img_path_on_disk |-> NoPath,
         img_exists |-> FALSE,
         img_encoding |-> NoEnc,
         webp_ref_path |-> NoPath,
         webp_copy_exists |-> "None",
         correct_extension |-> "None",
         img_ref_external_web_link |-> FALSE],
        ref_path, disk)

\* the references of one leaf, lines 736-778
RefsOfItem(item, ref_file_path, json_or_db, ref_file_line, disk) ==
    IF item.val.t # "str" \/ ~MatchesImgRegex(item.val.leaf) THEN <<>>
    ELSE IF item.val.leaf.html
    THEN LET srcs == UniqueInOrder(item.val.leaf.srcs) IN
         [i \in 1..Len(srcs) |->
             NewImageReference(json_or_db, ref_file_path,
                               IF json_or_db = "db" THEN ref_file_line ELSE -1,
                               item, srcs[i], disk)]
    ELSE <<NewImageReference(json_or_db, ref_file_path,
                             IF json_or_db = "db" THEN ref_file_line ELSE 0,
                             item, item.val.leaf.srcs[1], disk)>>

RECURSIVE RefsOfItems(_, _, _, _, _, _)
RefsOfItems(items, n, ref_file_path, json_or_db, ref_file_line, disk) ==
    IF n > Len(items) THEN <<>>
    ELSE RefsOfItem(items[n], ref_file_path, json_or_db, ref_file_line, disk)
         \o RefsOfItems(items, n + 1, ref_file_path, json_or_db, ref_file_line, disk)

traverse_dict_and_find_all_refs(dict_content, ref_file_path, json_or_db, ref_file_line, disk) ==
    RefsOfItems(dict_walker(dict_content, <<>>), 1, ref_file_path, json_or_db,
                ref_file_line, disk)

RECURSIVE RefsOfRecs(_, _, _, _)
RefsOfRecs(docs, d, i, disk) ==
    IF i > Len(docs[d].recs) THEN <<>>
    ELSE traverse_dict_and_find_all_refs(docs[d].recs[i], d, docs[d].ftype, i - 1, disk)
         \o RefsOfRecs(docs, d, i + 1, disk)

RECURSIVE RefsOfDocs(_, _, _)
RefsOfDocs(docs, d, disk) ==
    IF d > Len(docs) THEN <<>>
    ELSE RefsOfRecs(docs, d, 1, disk) \o RefsOfDocs(docs, d + 1, disk)

find_all_img_references_in_world(docs, disk) == RefsOfDocs(docs, 1, disk)

\* self.all_img_refs_by_id, lines 764 and 778: the reference stored last under
\* each id
all_img_refs_by_id(refs) ==
    [id \in {refs[n].ref_id : n \in 1..Len(refs)} |->
        refs[CHOOSE n \in 1..Len(refs) :
                 /\ refs[n].ref_id = id
                 /\ \A m \in n + 1..Len(refs) : refs[m].ref_id # id]]

(***************************************************************************)
(* The indexes, as ordered dictionaries: keys in order of first insertion. *)
(***************************************************************************)
\* the keys of get_refs_indexed_by_img
PathKeys(refs) == UniqueInOrder([i \in 1..Len(refs) |-> refs[i].ref_path])

RECURSIVE PositionsOfPath(_, _, _)
PositionsOfPath(refs, n, path) ==
    IF n > Len(refs) THEN <<>>
    ELSE (IF refs[n].ref_path = path THEN <<n>> ELSE <<>>) \o PositionsOfPath(refs, n + 1, path)

\* get_refs_indexed_by_img()[path], as positions in all_img_refs
RefsOfPath(refs, path) == PositionsOfPath(refs, 1, path)

RECURSIVE PositionsOfHash(_, _, _)
PositionsOfHash(refs, n, hash) ==
    IF n > Len(refs) THEN <<>>
    ELSE (IF refs[n].img_hash = hash THEN <<n>> ELSE <<>>) \o PositionsOfHash(refs, n + 1, hash)

\* the keys of get_refs_indexed_by_hash_by_img
HashKeys(refs) == UniqueInOrder([i \in 1..Len(refs) |-> refs[i].img_hash])

\* the keys of get_refs_indexed_by_hash_by_img()[hash]
PathKeysOfHash(refs, hash) ==
    LET ps == PositionsOfHash(refs, 1, hash) IN
    UniqueInOrder([i \in 1..Len(ps) |-> refs[ps[i]].ref_path])

\* get_refs_indexed_by_hash_by_img()[hash][path], as positions in all_img_refs
RefsOfHashPath(refs, hash, path) ==
    SelectSeq(PositionsOfHash(refs, 1, hash), LAMBDA n : refs[n].ref_path = path)

\* the keys of get_duplicated_images, lines 1095-1100
get_duplicated_images(refs) ==
    LET hs == HashKeys(refs) IN
    SelectSeq(hs, LAMBDA h : Len(PathKeysOfHash(refs, h)) > 1 /\ h # NoHash)

(***************************************************************************)
(* The operations.  Each acts on the program state                         *)
(*   [disk, files, refs, tq, trash_dir, doc_files, calls, err]             *)
(* (the image files on disk, self.files, self.all_img_refs,                *)
(* self.trash_queue, whether the trash folder exists, the document files   *)
(* on disk, the runs of the encoder so far, the exception raised if any)   *)
(* and gives the state it leaves.                                          *)
(* An exception ends the operation where it is raised: what was done       *)
(* before it stays done.                                                   *)
(***************************************************************************)
Raise(S, exception) == [S EXCEPT !.err = exception]

\* get_broken_refs without its first test: only the queued files
get_broken_refs_queued_only(refs, tq) ==
    SelectSeq([n \in 1..Len(refs) |-> n], LAMBDA n : refs[n].img_path_on_disk \in tq)

\* get_broken_refs, lines 925-931, as positions in all_img_refs
get_broken_refs(refs, tq) ==
    SelectSeq([n \in 1..Len(refs) |-> n],
              LAMBDA n : \/ refs[n].img_path_on_disk = NoPath /\ ~refs[n].img_ref_external_web_link
                         \/ refs[n].img_path_on_disk \in tq)

\* str(ref_path)[:7] == 'modules'
StartsWithModules(p) == p.root = "rel" /\ Len(p.dir) > 0 /\ p.dir[1] \in {"modules", "modulesx"}

ReplaceInName(name) ==
    CASE name = "modules" -> "worlds"
      [] name = "modulesx" -> "worldsx"
      [] OTHER -> name

\* str(ref_path).replace('modules', 'worlds'): every occurrence
ReplaceModules(p) == [p EXCEPT !.dir = [i \in 1..Len(p.dir) |-> ReplaceInName(p.dir[i])]]

try_to_fix_one_broken_ref(S, n) ==
    LET img_ref_to_fix == S.refs[n]
        new_ref_path == ReplaceModules(img_ref_to_fix.ref_path)
    IN  IF ~StartsWithModules(img_ref_to_fix.ref_path) THEN S
        ELSE IF ~is_file(S.disk, new_ref_path) THEN S
        ELSE IF ~CanReach(S.files, img_ref_to_fix) THEN Raise(S, "TypeError")
        ELSE LET new_img_content ==
                     str_replace(get_img_ref_content(S.files, img_ref_to_fix),
                                 img_ref_to_fix.ref_path, new_ref_path)
             IN  [S EXCEPT
                     !.refs[n] = set_editable_attributes(img_ref_to_fix, new_ref_path, S.disk),
                     !.files = push_updated_content_to_world(S.files, img_ref_to_fix,
                                                             new_img_content)]

RECURSIVE FixBrokenFrom(_, _, _)
FixBrokenFrom(S, broken_refs, k) ==
    IF k > Len(broken_refs) \/ S.err # "" THEN S
    ELSE FixBrokenFrom(try_to_fix_one_broken_ref(S, broken_refs[k]), broken_refs, k + 1)

try_to_fix_all_broken_refs(S) == FixBrokenFrom(S, get_broken_refs(S.refs, S.tq), 1)

RECURSIVE find_filename_that_doesnt_exist_yet(_, _, _)
find_filename_that_doesnt_exist_yet(disk, file_path, suffix) ==
    LET path == [file_path EXCEPT !.ext = suffix] IN
    IF is_file(disk, path)
    THEN find_filename_that_doesnt_exist_yet(disk, [path EXCEPT !.stem = Append(@, "_")], suffix)
    ELSE path

\* a move in place of the copy
copyfile_moving(disk, src, dst) ==
    [p \in (DOMAIN disk \ {src}) \cup {dst} |-> IF p = dst THEN disk[src] ELSE disk[p]]

\* shutil.copyfile(src, dst)
copyfile(disk, src, dst) == [p \in DOMAIN disk \cup {dst} |-> IF p = dst THEN disk[src] ELSE disk[p]]

\* lines 826-828: every reference of the path gets the new path and the new content
RECURSIVE RepointAllTo(_, _, _, _, _)
RepointAllTo(S, list, k, new_ref_path, new_content) ==
    IF k > Len(list) \/ S.err # "" THEN S
    ELSE LET ref == S.refs[list[k]]
             T == [S EXCEPT !.refs[list[k]] = set_editable_attributes(ref, new_ref_path, S.disk)]
         IN  IF ~CanReach(S.files, ref) THEN Raise(T, "TypeError")
             ELSE RepointAllTo([T EXCEPT !.files =
                                   push_updated_content_to_world(S.files, ref, new_content)],
                               list, k + 1, new_ref_path, new_content)

\* the body of the loop of fix_incorrect_file_extensions, lines 806-828
FixExtensionOfPath(S, list) ==
    LET temp_ref == S.refs[list[1]] IN
    IF ~(temp_ref.img_exists /\ temp_ref.ref_img_in_world_folder
         /\ temp_ref.correct_extension # "True")
    THEN S
    ELSE IF ~CanReach(S.files, temp_ref) THEN Raise(S, "TypeError")
    ELSE LET old_content == get_img_ref_content(S.files, temp_ref)
             old_ref_path == temp_ref.ref_path
             new_ref_path == find_filename_that_doesnt_exist_yet(S.disk, old_ref_path,
                                                                 temp_ref.img_encoding)
             new_content == str_replace(old_content, old_ref_path, new_ref_path)
         IN  IF ~is_file(S.disk, old_ref_path) THEN Raise(S, "FileNotFoundError")
             ELSE RepointAllTo([S EXCEPT !.disk = copyfile(S.disk, old_ref_path, new_ref_path)],
                               list, 1, new_ref_path, new_content)

RECURSIVE FixExtensionsFrom(_, _, _, _)
FixExtensionsFrom(S, refs0, keys, k) ==
    IF k > Len(keys) \/ S.err # "" THEN S
    ELSE FixExtensionsFrom(FixExtensionOfPath(S, RefsOfPath(refs0, keys[k])), refs0, keys, k + 1)

fix_incorrect_file_extensions(S) == FixExtensionsFrom(S, S.refs, PathKeys(S.refs), 1)

\* lines 1135-1139: the references of one replaced path
RECURSIVE RepointDuplicates(_, _, _, _)
RepointDuplicates(S, list, k, main_img) ==
    IF k > Len(list) \/ S.err # "" THEN S
    ELSE LET ref == S.refs[list[k]] IN
         IF ~CanReach(S.files, ref) THEN Raise(S, "TypeError")
         ELSE LET updated_content ==
                      str_replace(get_img_ref_content(S.files, ref),
                                  ref.img_path_on_disk, main_img)
              IN  RepointDuplicates(
                      [S EXCEPT
                          !.refs[list[k]] = set_editable_attributes(ref, main_img, S.disk),
                          !.files = push_updated_content_to_world(S.files, ref,
                                                                  updated_content)],
                      list, k + 1, main_img)

\* the last path of the set in place of the first
MainImg_last(paths) == paths[Len(paths)]

\* the canonical image of a set of duplicates, line 1130
MainImg(paths) == paths[1]

\* lines 1133-1141, from the k-th key of duplicated_img_dict on
RECURSIVE ReplaceDuplicatesFrom(_, _, _, _, _)
ReplaceDuplicatesFrom(S, refs0, hash, paths, k) ==
    IF k > Len(paths) \/ S.err # "" THEN S
    ELSE LET T == RepointDuplicates(S, RefsOfHashPath(refs0, hash, paths[k]), 1,
                                    MainImg(paths))
         IN  IF T.err # "" THEN T
             ELSE ReplaceDuplicatesFrom([T EXCEPT !.tq = @ \cup {paths[k]}],
                                        refs0, hash, paths, k + 1)

fix_one_set_of_duplicated_images(S, refs0, hash) ==
    ReplaceDuplicatesFrom(S, refs0, hash, PathKeysOfHash(refs0, hash), 2)

RECURSIVE FixDuplicatesFrom(_, _, _, _)
FixDuplicatesFrom(S, refs0, hashes, k) ==
    IF k > Len(hashes) \/ S.err # "" THEN S
    ELSE FixDuplicatesFrom(fix_one_set_of_duplicated_images(S, refs0, hashes[k]),
                           refs0, hashes, k + 1)

fix_all_sets_of_duplicated_images(S) ==
    FixDuplicatesFrom(S, S.refs, get_duplicated_images(S.refs), 1)

(***************************************************************************)
(* The conversion.  One run of the encoder ends with an exit code and has  *)
(* or has not written its destination: [rc, wrote].                        *)
(***************************************************************************)
EncoderOutcomes == [rc : {0, 1}, wrote : BOOLEAN]

\* ImageReference.create_webp_copy: the disk after ffmpeg -y -i source destination
create_webp_copy(disk, self, outcome) ==
    IF ~is_file(disk, self.img_path_on_disk) \/ ~outcome.wrote THEN disk
    ELSE [p \in DOMAIN disk \cup {self.webp_ref_path} |->
             IF p = self.webp_ref_path
             THEN (IF outcome.rc = 0 THEN webp_of(disk[self.img_path_on_disk])
                   ELSE PartialBytes)
             ELSE disk[p]]

\* the exit code of that run: an encoder without its source fails
ReturnCode(disk, self, outcome) ==
    IF ~is_file(disk, self.img_path_on_disk) THEN 1 ELSE outcome.rc

\* update_one_ref_to_webp for each reference of the path, lines 1264-1265.
\* webp_ref_path is an attribute only of a reference that has resolved once
\* (line 418); NoPath stands for the attribute not being there.
RECURSIVE UpdateRefsToWebp(_, _, _)
UpdateRefsToWebp(S, list, k) ==
    IF k > Len(list) \/ S.err # "" THEN S
    ELSE LET img_ref_to_update == S.refs[list[k]]
             old_ref_path == img_ref_to_update.ref_path
             new_ref_path == img_ref_to_update.webp_ref_path
         IN  IF ~CanReach(S.files, img_ref_to_update) THEN Raise(S, "TypeError")
             ELSE IF new_ref_path = NoPath THEN Raise(S, "AttributeError")
             ELSE LET new_img_ref_content ==
                          str_replace(get_img_ref_content(S.files, img_ref_to_update),
                                      old_ref_path, new_ref_path)
                  IN  UpdateRefsToWebp(
                          [S EXCEPT
                              !.refs[list[k]] =
                                  set_editable_attributes(img_ref_to_update, new_ref_path,
                                                          S.disk),
                              !.files = push_updated_content_to_world(
                                            S.files, img_ref_to_update, new_img_ref_content)],
                          list, k + 1)

\* the body of the loop of convert_all_images_to_webp_and_update_refs, lines 1250-1266
ConvertPath(S, path, list, outcome) ==
    LET temp_ref == S.refs[list[1]] IN
    IF temp_ref.is_webp \/ ~temp_ref.img_exists \/ ~temp_ref.ref_img_in_world_folder THEN S
    ELSE LET invoke == ~is_file(S.disk, temp_ref.webp_ref_path)
             return_code == IF invoke THEN ReturnCode(S.disk, temp_ref, outcome) ELSE 0
             disk1 == IF invoke THEN create_webp_copy(S.disk, temp_ref, outcome) ELSE S.disk
             converted == return_code = 0 /\ is_file(disk1, temp_ref.webp_ref_path)
             S1 == [S EXCEPT !.disk = disk1,
                             !.calls = IF invoke
                                       THEN Append(@, [path |-> path,
                                                       source |-> temp_ref.img_path_on_disk,
                                                       destination |-> temp_ref.webp_ref_path,
                                                       rc |-> return_code,
                                                       written |-> is_file(disk1, temp_ref.webp_ref_path)])
                                       ELSE @]
             T == IF converted THEN UpdateRefsToWebp(S1, list, 1) ELSE S1
         IN  IF T.err # "" THEN T ELSE [T EXCEPT !.tq = @ \cup {path}]

RECURSIVE ConvertFrom(_, _, _, _, _)
ConvertFrom(S, refs0, keys, k, outcomes) ==
    IF k > Len(keys) \/ S.err # "" THEN S
    ELSE ConvertFrom(ConvertPath(S, keys[k], RefsOfPath(refs0, keys[k]), outcomes[k]),
                     refs0, keys, k + 1, outcomes)

\* outcomes[k] is the outcome of the encoder for the k-th path, if it is run
convert_all_images_to_webp_and_update_refs(S, outcomes) ==
    ConvertFrom(S, S.refs, PathKeys(S.refs), 1, outcomes)

(***************************************************************************)
(* Export, unused images, the trash.                                       *)
(***************************************************************************)
\* json.dumps(l, separators=(',', ':'), ensure_ascii=False): the text of one value
json_dumps(value) == <<"json", value>>

\* a line that is no JSON text
Malformed == <<"malformed">>

\* json.loads(line)
json_loads(line) == line[2]

\* json.loads and json.load raise json.JSONDecodeError exactly when this is FALSE
CanParse(line) == line[1] = "json"

DocFile(name) == [name |-> name, bak |-> FALSE]

\* path.with_suffix(path.suffix + "bak")
BakFile(name) == [name |-> name, bak |-> TRUE]

\* the lines written for a document, lines 1288-1291
Lines(content) == [i \in 1..Len(content) |-> json_dumps(content[i])]

RECURSIVE HasSurrogate(_)
HasSurrogate(value) ==
    \/ value.t = "sur"
    \/ \E i \in 1..Len(value.kids) : HasSurrogate(value.kids[i].v)

\* file.write on a file opened with encoding="utf-8" raises UnicodeEncodeError
\* exactly when this is FALSE: ensure_ascii=False leaves a lone surrogate in the text
CanEncode(lines) == \A i \in 1..Len(lines) : ~HasSurrogate(json_loads(lines[i]))

\* the loop with the copy made after the file is written
RECURSIVE ExportFrom_write_first(_, _, _)
ExportFrom_write_first(doc_files, docs, d) ==
    IF d > Len(docs) THEN doc_files
    ELSE LET path == DocFile(docs[d].name)
             bak == BakFile(docs[d].name)
             text == IF CanEncode(Lines(docs[d].recs)) THEN Lines(docs[d].recs) ELSE <<>>
             written == [doc_files EXCEPT ![path] = text]
             copied == [f \in DOMAIN written \cup {bak} |->
                           IF f = bak THEN written[path] ELSE written[f]]
         IN  IF ~CanEncode(Lines(docs[d].recs)) THEN written
             ELSE ExportFrom_write_first(copied, docs, d + 1)

\* the loop of lines 1284-1291 from document d on: copy to the backup, open for
\* writing (the file is empty from here), write the lines; a write that raises
\* ends the loop
RECURSIVE ExportFrom(_, _, _)
ExportFrom(doc_files, docs, d) ==
    IF d > Len(docs) THEN doc_files
    ELSE LET path == DocFile(docs[d].name)
             bak == BakFile(docs[d].name)
             copied == [f \in DOMAIN doc_files \cup {bak} |->
                           IF f = bak THEN doc_files[path] ELSE doc_files[f]]
         IN  IF ~CanEncode(Lines(docs[d].recs))
             THEN [copied EXCEPT ![path] = <<>>]
             ELSE ExportFrom([copied EXCEPT ![path] = Lines(docs[d].recs)], docs, d + 1)

export_all_json_and_db_files(S) ==
    [S EXCEPT !.doc_files = ExportFrom(S.doc_files, S.files, 1),
              !.err = IF \E d \in 1..Len(S.files) : ~CanEncode(Lines(S.files[d].recs))
                      THEN "UnicodeEncodeError" ELSE S.err]

\* find_all_images_in_world_folder: rglob of the four patterns below the world folder
find_all_images_in_world_folder(disk) ==
    {p \in DOMAIN disk : InParents(WorldDir, p) /\ p.ext \in ImgExts}

get_all_unused_images_in_world_folder(S) ==
    {img \in find_all_images_in_world_folder(S.disk) :
        \A n \in 1..Len(S.refs) : S.refs[n].img_path_on_disk # img}

add_unused_images_to_trash_queue(S) ==
    [S EXCEPT !.tq = @ \cup get_all_unused_images_in_world_folder(S)]

\* self.trash / file.name
TrashPath(file) == [root |-> "rel", dir |-> TrashDir, stem |-> file.stem, ext |-> file.ext]

\* re.match('.*' + str(self.world_folder) + '.*', str(file))
MatchesWorldFolder(file) ==
    \E i \in 1..Len(file.dir) - 1 : SubSeq(file.dir, i, i + 1) = WorldDir

\* Path.rename: the target is replaced if it exists
rename(disk, src, dst) ==
    IF src = dst THEN disk
    ELSE [p \in (DOMAIN disk \ {src}) \cup {dst} |-> IF p = dst THEN disk[src] ELSE disk[p]]

\* the body of the loop of move_all_imgs_in_trash_queue_to_trash, lines 1335-1343
MoveToTrash(S, queued) ==
    LET unquoted == [queued EXCEPT !.stem = [i \in 1..Len(queued.stem) |->
                                                UnquoteTok(queued.stem[i])]]
        file == IF ~is_file(S.disk, queued) /\ is_file(S.disk, unquoted)
                THEN unquoted ELSE queued
    IN  IF is_file(S.disk, file) /\ MatchesWorldFolder(file)
        THEN (IF S.trash_dir
              THEN [S EXCEPT !.disk = rename(S.disk, file, TrashPath(file))]
              ELSE Raise(S, "FileNotFoundError"))
        ELSE S

RECURSIVE MoveFrom(_, _, _)
MoveFrom(S, order, k) ==
    IF k > Len(order) \/ S.err # "" THEN S
    ELSE MoveFrom(MoveToTrash(S, order[k]), order, k + 1)

\* order: the order in which the set self.trash_queue is iterated
move_all_imgs_in_trash_queue_to_trash(S, order) == MoveFrom(S, order, 1)

\* shutil.rmtree(self.trash)
rmtree_trash(disk) == [p \in {q \in DOMAIN disk : ~InParents(TrashDir, q)} |-> disk[p]]

empty_trash(S, delete_unreferenced_images) ==
    IF ~delete_unreferenced_images THEN S
    ELSE IF ~S.trash_dir THEN Raise(S, "FileNotFoundError")
    ELSE [S EXCEPT !.disk = rmtree_trash(S.disk), !.trash_dir = FALSE]

\* the documents of the world in the order of self.files: the json file, the db file
DocNames == << [ftype |-> "json", name |-> "world.json"],
               [ftype |-> "db", name |-> "actors.db"] >>

\* WorldRefs.load_data: every line of every db file and the text of every json
\* file is parsed, or the load raises; json.load raises on an empty file
load_data(S) ==
    IF \E d \in 1..Len(DocNames) :
           \/ \E i \in 1..Len(S.doc_files[DocFile(DocNames[d].name)]) :
                  ~CanParse(S.doc_files[DocFile(DocNames[d].name)][i])
           \/ DocNames[d].ftype = "json" /\ S.doc_files[DocFile(DocNames[d].name)] = <<>>
    THEN Raise(S, "JSONDecodeError")
    ELSE [S EXCEPT !.files =
             [d \in 1..Len(DocNames) |->
                 [ftype |-> DocNames[d].ftype, name |-> DocNames[d].name,
                  recs |-> [i \in 1..Len(S.doc_files[DocFile(DocNames[d].name)]) |->
                               json_loads(S.doc_files[DocFile(DocNames[d].name)][i])]]]]

\* the trash folder made before the documents are loaded
WorldRefs_init_mkdir_first(S) ==
    LET L == load_data([S EXCEPT !.trash_dir = TRUE]) IN
    IF L.err # "" THEN L
    ELSE [L EXCEPT !.tq = {},
                   !.refs = find_all_img_references_in_world(L.files, L.disk)]

\* WorldRefs.__init__, lines 633-651: load, make the trash folder, empty queue, scan
WorldRefs_init(S) ==
    LET L == load_data(S) IN
    IF L.err # "" THEN L
    ELSE [L EXCEPT !.trash_dir = TRUE,
                   !.tq = {},
                   !.refs = find_all_img_references_in_world(L.files, L.disk)]

\* WorldRefs.restore_trash_folder: self.trash_folder is an attribute that is never set
restore_trash_folder(S) == Raise(S, "AttributeError")

(***************************************************************************)
(* The state machine.  one_liner_compress_world runs the passes in a fixed *)
(* order; pc names the pass to run next.  A pass that has just run may be  *)
(* run again at once (the repair passes are meant to be safe to re-run),   *)
(* at most MaxReruns times in a run.  An exception ends the run.           *)
(***************************************************************************)
VARIABLES disk, files, all_img_refs, trash_queue, trash_dir, doc_files, calls, err,
          pc, last, pre

vars == <<disk, files, all_img_refs, trash_queue, trash_dir, doc_files, calls, err,
          pc, last, pre>>

\* the program state as the operations take it
State ==
    [disk |-> disk, files |-> files, refs |-> all_img_refs, tq |-> trash_queue,
     trash_dir |-> trash_dir, doc_files |-> doc_files, calls |-> calls, err |-> err]

(***************************************************************************)
(* The worlds the runs start from.  A family names the image paths that    *)
(* may exist on disk and the paths the documents may declare.              *)
(***************************************************************************)
FileBytes == [sig : {"png", "jpeg"}, id : 1..MaxData]

InWorld(stem, ext) == MkPath("rel", WorldDir, stem, ext)

Families ==
    << \* plain references, wrong extensions, duplicates, an existing webp copy
       [disk |-> {InWorld(<<"a">>, "png"), InWorld(<<"b">>, "png"),
                  InWorld(<<"a">>, "jpeg"), InWorld(<<"a">>, "webp")},
        decl |-> {InWorld(<<"a">>, "png"), InWorld(<<"b">>, "png"),
                  InWorld(<<"a">>, "jpeg")},
        html |-> {FALSE}],
       \* a name with a space, declared with and without its percent escape
       [disk |-> {InWorld(<<"a", " ", "b">>, "png"), InWorld(<<"a", "%20", "b">>, "png"),
                  InWorld(<<"a", "-", "b">>, "webp")},
        decl |-> {InWorld(<<"a", "%20", "b">>, "png"), InWorld(<<"a", " ", "b">>, "png")},
        html |-> {FALSE}],
       \* the core data folder and links to the web
       [disk |-> {MkPath("core", <<"icons">>, <<"a">>, "png"),
                  MkPath("core", WorldDir, <<"a">>, "png"),
                  InWorld(<<"a">>, "png")},
        decl |-> {MkPath("rel", <<"icons">>, <<"a">>, "png"), InWorld(<<"a">>, "png"),
                  MkPath("rel", <<"http:", "host">>, <<"a">>, "png")},
        html |-> {FALSE}],
       \* references into the modules folder
       [disk |-> {InWorld(<<"a">>, "png"),
                  MkPath("rel", WorldDir \o <<"modules">>, <<"a">>, "png")},
        decl |-> {MkPath("rel", <<"modules", "w">>, <<"a">>, "png"),
                  MkPath("rel", <<"modules", "w", "modules">>, <<"a">>, "png")},
        html |-> {FALSE}],
       \* images nothing refers to, in several folders and in the trash folder
       [disk |-> {InWorld(<<"a">>, "png"), InWorld(<<"b">>, "png"),
                  MkPath("rel", WorldDir \o <<"sub">>, <<"a">>, "png"),
                  MkPath("rel", TrashDir, <<"a">>, "png")},
        decl |-> {InWorld(<<"a">>, "png")},
        html |-> {FALSE}],
       \* references inside HTML chunks
       [disk |-> {InWorld(<<"a">>, "png")},
        decl |-> {InWorld(<<"a">>, "png"), InWorld(<<"b">>, "png")},
        html |-> {FALSE, TRUE}] >>

Disks(paths) ==
    UNION {[F -> FileBytes] : F \in {X \in SUBSET paths : Cardinality(X) <= MaxFiles}}

Leaves(family) ==
    {[html |-> h, srcs |-> <<p>>] : h \in family.html, p \in family.decl}

SeqsUpTo(S, n) == UNION {[1..m -> S] : m \in 0..n}

\* the title of the world and the name of every actor: plain strings, or one of
\* the two holds a lone surrogate
PlainNames == <<VStr(NoLeaf), VStr(NoLeaf)>>

Names == {PlainNames, <<VSur, VStr(NoLeaf)>>, <<VStr(NoLeaf), VSur>>}

\* a world.json with at most one leaf and an actors.db with one record per leaf
Documents(json_leaves, db_leaves, names) ==
    << [ftype |-> "json", name |-> "world.json",
        recs |-> << VObj(<<[k |-> "title", v |-> names[1]]>>
                         \o [i \in 1..Len(json_leaves) |->
                                [k |-> "description", v |-> VStr(json_leaves[i])]]) >>],
       [ftype |-> "db", name |-> "actors.db",
        recs |-> [i \in 1..Len(db_leaves) |->
                     VObj(<<[k |-> "name", v |-> names[2]],
                            [k |-> "img", v |-> VStr(db_leaves[i])]>>)]] >>

\* the document files as load_data finds them
DocFilesOf(docs) ==
    [f \in {DocFile(docs[d].name) : d \in 1..Len(docs)} |->
        Lines(docs[CHOOSE d \in 1..Len(docs) : docs[d].name = f.name].recs)]

\* the pass that ran last: its name, how many times it was re-run, the flag given
\* to empty_trash
NoOp == [op |-> "init", reruns |-> 0, flag |-> FALSE]

\* the document files with one line spoilt, or none
Spoilt(texts) ==
    {texts} \cup
    UNION {{[texts EXCEPT ![f][i] = Malformed] : i \in 1..Len(texts[f])} :
              f \in DOMAIN texts}

\* before WorldRefs is constructed: the files of a world on disk, nothing loaded
Init ==
    \E f \in 1..Len(Families) :
    \E d \in Disks(Families[f].disk) :
    \E jl \in SeqsUpTo(Leaves(Families[f]), 1) :
    \E dl \in SeqsUpTo(Leaves(Families[f]), MaxLeaves - Len(jl)) :
    \E ns \in Names :
    \E df \in Spoilt(DocFilesOf(Documents(jl, dl, ns))) :
        /\ disk = d
        /\ files = <<>>
        /\ all_img_refs = <<>>
        /\ trash_queue = {}
        /\ trash_dir = (\E p \in DOMAIN d : InParents(TrashDir, p))
        /\ doc_files = df
        /\ calls = <<>>
        /\ err = ""
        /\ pc = "construct"
        /\ last = NoOp
        /\ pre = [disk |-> d, files |-> <<>>, refs |-> <<>>, tq |-> {},
                  trash_dir |-> (\E p \in DOMAIN d : InParents(TrashDir, p)),
                  doc_files |-> df, calls |-> <<>>, err |-> ""]

\* the move before the documents are persisted
After_move_first(stage) ==
    CASE stage = "construct" -> "fix_broken"
      [] stage = "fix_broken" -> "fix_ext"
      [] stage = "fix_ext" -> "dedupe1"
      [] stage = "dedupe1" -> "convert"
      [] stage = "convert" -> "dedupe2"
      [] stage = "dedupe2" -> "gc"
      [] stage = "gc" -> "move"
      [] stage = "move" -> "export"
      [] stage = "export" -> "purge"
      [] OTHER -> "done"

\* the order of one_liner_compress_world, lines 1601-1609
After(stage) ==
    CASE stage = "construct" -> "fix_broken"
      [] stage = "fix_broken" -> "fix_ext"
      [] stage = "fix_ext" -> "dedupe1"
      [] stage = "dedupe1" -> "convert"
      [] stage = "convert" -> "dedupe2"
      [] stage = "dedupe2" -> "export"
      [] stage = "export" -> "gc"
      [] stage = "gc" -> "move"
      [] stage = "move" -> "purge"
      [] OTHER -> "done"

\* the passes a caller runs again on a world they have just processed
Repeatable == {"fix_broken", "fix_ext", "dedupe"}

\* the pass op runs now: it is its turn, or it has just run and runs again
Turn(op, stages, flag) ==
    /\ err = ""
    /\ \/ /\ pc \in stages
          /\ pc' = After(pc)
          /\ last' = [op |-> op, reruns |-> 0, flag |-> flag]
       \/ /\ last.op = op
          /\ op \in Repeatable
          /\ last.reruns < MaxReruns
          /\ pc' = pc
          /\ last' = [op |-> op, reruns |-> last.reruns + 1, flag |-> flag]

\* the pass leaves the program in state T
Becomes(T) ==
    /\ disk' = T.disk
    /\ files' = T.files
    /\ all_img_refs' = T.refs
    /\ trash_queue' = T.tq
    /\ trash_dir' = T.trash_dir
    /\ doc_files' = T.doc_files
    /\ calls' = T.calls
    /\ err' = T.err
    /\ pre' = State

Perms(S) ==
    {s \in [1..Cardinality(S) -> S] : \A i, j \in 1..Cardinality(S) : s[i] = s[j] => i = j}

\* a method the caller runs out of turn, right after the pass named by after
Extra(op, after) ==
    /\ err = ""
    /\ last.op = after
    /\ pc' = pc
    /\ last' = [op |-> op, reruns |-> 0, flag |-> FALSE]

Construct ==
    /\ Turn("construct", {"construct"}, FALSE)
    /\ Becomes(WorldRefs_init(State))

\* a second full scan, right after the scan of the constructor
FindAllImgReferencesInWorld ==
    /\ Extra("scan", "construct")
    /\ Becomes([State EXCEPT !.refs = find_all_img_references_in_world(files, disk)])

\* the documents are loaded again from the files just exported
LoadData ==
    /\ Extra("load_data", "export")
    /\ Becomes(load_data(State))

RestoreTrashFolder ==
    /\ Extra("restore", "move")
    /\ Becomes(restore_trash_folder(State))

TryToFixAllBrokenRefs ==
    /\ Turn("fix_broken", {"fix_broken"}, FALSE)
    /\ Becomes(try_to_fix_all_broken_refs(State))

FixIncorrectFileExtensions ==
    /\ Turn("fix_ext", {"fix_ext"}, FALSE)
    /\ Becomes(fix_incorrect_file_extensions(State))

FixAllSetsOfDuplicatedImages ==
    /\ Turn("dedupe", {"dedupe1", "dedupe2"}, FALSE)
    /\ Becomes(fix_all_sets_of_duplicated_images(State))

ConvertAllImagesToWebpAndUpdateRefs ==
    /\ Turn("convert", {"convert"}, FALSE)
    /\ \E outcomes \in [1..Len(PathKeys(all_img_refs)) -> EncoderOutcomes] :
          Becomes(convert_all_images_to_webp_and_update_refs(State, outcomes))

ExportAllJsonAndDbFiles ==
    /\ Turn("export", {"export"}, FALSE)
    /\ Becomes(export_all_json_and_db_files(State))

AddUnusedImagesToTrashQueue ==
    /\ Turn("gc", {"gc"}, FALSE)
    /\ Becomes(add_unused_images_to_trash_queue(State))

MoveAllImgsInTrashQueueToTrash ==
    /\ Turn("move", {"move"}, FALSE)
    /\ \E order \in Perms(trash_queue) :
          Becomes(move_all_imgs_in_trash_queue_to_trash(State, order))

EmptyTrash ==
    \E delete_unreferenced_images \in BOOLEAN :
        /\ Turn("purge", {"purge"}, delete_unreferenced_images)
        /\ Becomes(empty_trash(State, delete_unreferenced_images))

Next ==
    \/ Construct
    \/ FindAllImgReferencesInWorld
    \/ LoadData
    \/ RestoreTrashFolder
    \/ TryToFixAllBrokenRefs
    \/ FixIncorrectFileExtensions
    \/ FixAllSetsOfDuplicatedImages
    \/ ConvertAllImagesToWebpAndUpdateRefs
    \/ ExportAllJsonAndDbFiles
    \/ AddUnusedImagesToTrashQueue
    \/ MoveAllImgsInTrashQueueToTrash
    \/ EmptyTrash

Spec == Init /\ [][Next]_vars

(***************************************************************************)
(* The move of the trash queue on its own.  trash_queue is a public        *)
(* attribute of WorldRefs (its docstring, line 568): the pass moves        *)
(* whatever paths its caller has left in it.  The world has no document;   *)
(* the files and the queued paths lie inside and outside the world folder. *)
(***************************************************************************)
QueuedPaths ==
    {InWorld(<<"a">>, "png"),
     InWorld(<<"a", "%20", "b">>, "png"),
     InWorld(<<"b">>, "png"),
     MkPath("rel", <<"modules", "m">> \o WorldDir, <<"a">>, "png"),
     MkPath("rel", <<"icons">>, <<"a">>, "png"),
     MkPath("core", WorldDir, <<"a">>, "png")}

MovableFiles ==
    {InWorld(<<"a">>, "png"),
     InWorld(<<"a", " ", "b">>, "png"),
     MkPath("rel", <<"modules", "m">> \o WorldDir, <<"a">>, "png"),
     MkPath("rel", <<"icons">>, <<"a">>, "png"),
     MkPath("core", WorldDir, <<"a">>, "png")}

InitMove ==
    \E d \in Disks(MovableFiles) :
    \E q \in {Q \in SUBSET QueuedPaths : Cardinality(Q) <= MaxQueued} :
        /\ disk = d
        /\ files = Documents(<<>>, <<>>, PlainNames)
        /\ all_img_refs = <<>>
        /\ trash_queue = q
        /\ trash_dir = TRUE
        /\ doc_files = DocFilesOf(Documents(<<>>, <<>>, PlainNames))
        /\ calls = <<>>
        /\ err = ""
        /\ pc = "move"
        /\ last = NoOp
        /\ pre = [disk |-> d, files |-> Documents(<<>>, <<>>, PlainNames), refs |-> <<>>, tq |-> q,
                  trash_dir |-> TRUE, doc_files |-> DocFilesOf(Documents(<<>>, <<>>, PlainNames)),
                  calls |-> <<>>, err |-> ""]

SpecMove == InitMove /\ [][MoveAllImgsInTrashQueueToTrash]_vars

(***************************************************************************)
(* The conversion on its own, on a world the repair passes left as it was: *)
(* every file has the extension of its encoding and no two files hold the  *)
(* same bytes.  The names differ in extension or in letter case, so that   *)
(* webp paths coincide; the pictures differ.                               *)
(***************************************************************************)
ConvertibleFiles ==
    {InWorld(<<"a">>, "png"), InWorld(<<"a">>, "jpeg"), InWorld(<<"A">>, "png"),
     InWorld(<<"b">>, "png")}

ConvertibleDisks ==
    {d \in UNION {[F -> [sig : {"png", "jpeg"}, id : 1..MaxPictures]] :
                     F \in {X \in SUBSET ConvertibleFiles : Cardinality(X) <= MaxFiles}} :
        /\ \A p \in DOMAIN d : d[p].sig = mime_guess(p.ext)
        /\ \A p, q \in DOMAIN d : d[p] = d[q] => p = q}

InitConvert ==
    \E d \in ConvertibleDisks :
    \E dl \in SeqsUpTo({[html |-> FALSE, srcs |-> <<p>>] : p \in ConvertibleFiles}, MaxLeaves) :
        LET docs == Documents(<<>>, dl, PlainNames)
            S == [disk |-> d, files |-> docs,
                  refs |-> find_all_img_references_in_world(docs, d), tq |-> {},
                  trash_dir |-> TRUE, doc_files |-> DocFilesOf(docs),
                  calls |-> <<>>, err |-> ""]
        IN  /\ disk = S.disk
            /\ files = S.files
            /\ all_img_refs = S.refs
            /\ trash_queue = S.tq
            /\ trash_dir = S.trash_dir
            /\ doc_files = S.doc_files
            /\ calls = S.calls
            /\ err = S.err
            /\ pc = "convert"
            /\ last = NoOp
            /\ pre = S

SpecConvert == InitConvert /\ [][ConvertAllImagesToWebpAndUpdateRefs]_vars

(***************************************************************************)
(* The construction on its own, on worlds whose actors.db holds one record *)
(* of any shape: leaves in objects and arrays at several depths, bare       *)
(* paths in lower and upper case, markup with several img elements.         *)
(***************************************************************************)
ScanLeaves ==
    {[html |-> FALSE, srcs |-> <<InWorld(<<"a">>, "png")>>],
     [html |-> FALSE, srcs |-> <<InWorld(<<"a">>, "PNG")>>],
     [html |-> TRUE, srcs |-> <<InWorld(<<"a">>, "png"), InWorld(<<"b">>, "png")>>],
     [html |-> TRUE, srcs |-> <<InWorld(<<"a">>, "png"), InWorld(<<"a">>, "png")>>],
     [html |-> TRUE, srcs |-> <<InWorld(<<"b">>, "png"), InWorld(<<"a">>, "png"),
                                InWorld(<<"b">>, "png")>>],
     NoLeaf}

ScanRecords ==
    UNION {{VObj(<<[k |-> "img", v |-> VStr(x)]>>),
            VObj(<<[k |-> "data", v |-> VObj(<<[k |-> "img", v |-> VStr(x)]>>)]>>),
            VObj(<<[k |-> "items", v |-> VArr(<<VObj(<<[k |-> "img", v |-> VStr(x)]>>)>>)]>>),
            VObj(<<[k |-> "items", v |-> VArr(<<VArr(<<VStr(x)>>)>>)]>>),
            VArr(<<VStr(x)>>)} : x \in ScanLeaves}
    \cup {VObj(<<[k |-> "items", v |-> VArr(<<VStr(x), VNum, VStr(y)>>)]>>) :
              x \in ScanLeaves, y \in ScanLeaves}

InitScan ==
    \E d \in Disks({InWorld(<<"a">>, "png"), InWorld(<<"b">>, "png")}) :
    \E record \in ScanRecords :
        LET docs == << [ftype |-> "json", name |-> "world.json",
                        recs |-> <<VObj(<<[k |-> "title", v |-> VStr(NoLeaf)]>>)>>],
                       [ftype |-> "db", name |-> "actors.db", recs |-> <<record>>] >>
            S == [disk |-> d, files |-> <<>>, refs |-> <<>>, tq |-> {},
                  trash_dir |-> FALSE, doc_files |-> DocFilesOf(docs),
                  calls |-> <<>>, err |-> ""]
        IN  /\ disk = S.disk
            /\ files = S.files
            /\ all_img_refs = S.refs
            /\ trash_queue = S.tq
            /\ trash_dir = S.trash_dir
            /\ doc_files = S.doc_files
            /\ calls = S.calls
            /\ err = S.err
            /\ pc = "construct"
            /\ last = NoOp
            /\ pre = S

SpecScan == InitScan /\ [][Construct]_vars

(***************************************************************************)
(* The repair of extensions on its own, on a world with no reference for   *)
(* try_to_fix_all_broken_refs to repair: files of every signature imghdr   *)
(* tells apart, or of none, under extensions that match it or not.         *)
(***************************************************************************)
MisnamedFiles ==
    {InWorld(<<"a">>, "png"), InWorld(<<"a">>, "jpg"), InWorld(<<"a">>, "jpeg"),
     InWorld(<<"a", ".png">>, "orig")}

InitFixExt ==
    \E d \in UNION {[F -> [sig : {"png", "jpeg", "webp", "none"}, id : 1..MaxData]] :
                       F \in {X \in SUBSET MisnamedFiles : Cardinality(X) <= MaxFiles}} :
    \E dl \in SeqsUpTo({[html |-> h, srcs |-> <<p>>] : h \in BOOLEAN, p \in MisnamedFiles},
                        MaxLeaves) :
        LET docs == Documents(<<>>, dl, PlainNames)
            S == [disk |-> d, files |-> docs,
                  refs |-> find_all_img_references_in_world(docs, d), tq |-> {},
                  trash_dir |-> TRUE, doc_files |-> DocFilesOf(docs),
                  calls |-> <<>>, err |-> ""]
        IN  /\ disk = S.disk
            /\ files = S.files
            /\ all_img_refs = S.refs
            /\ trash_queue = S.tq
            /\ trash_dir = S.trash_dir
            /\ doc_files = S.doc_files
            /\ calls = S.calls
            /\ err = S.err
            /\ pc = "fix_ext"
            /\ last = NoOp
            /\ pre = S

SpecFixExt == InitFixExt /\ [][FixIncorrectFileExtensions]_vars

(***************************************************************************)
(* The repair of broken references on its own, right after construction:   *)
(* declared paths under modules, under a folder whose name begins with     *)
(* modules, and with modules in a later segment; files where the           *)
(* substitutions lead.                                                     *)
(***************************************************************************)
LegacyPaths ==
    {MkPath("rel", <<"modules", "w">>, <<"a">>, "png"),
     MkPath("rel", <<"modules", "w", "modules">>, <<"a">>, "png"),
     MkPath("rel", <<"modulesx", "w">>, <<"a">>, "png")}

CurrentFiles ==
    {InWorld(<<"a">>, "png"),
     MkPath("rel", WorldDir \o <<"modules">>, <<"a">>, "png"),
     MkPath("rel", WorldDir \o <<"worlds">>, <<"a">>, "png"),
     MkPath("rel", <<"worldsx", "w">>, <<"a">>, "png")}

InitFixBroken ==
    \E d \in Disks(CurrentFiles) :
    \E dl \in SeqsUpTo({[html |-> h, srcs |-> <<p>>] : h \in BOOLEAN, p \in LegacyPaths},
                        MaxLeaves) :
        LET docs == Documents(<<>>, dl, PlainNames)
            S == [disk |-> d, files |-> docs,
                  refs |-> find_all_img_references_in_world(docs, d), tq |-> {},
                  trash_dir |-> TRUE, doc_files |-> DocFilesOf(docs),
                  calls |-> <<>>, err |-> ""]
        IN  /\ disk = S.disk
            /\ files = S.files
            /\ all_img_refs = S.refs
            /\ trash_queue = S.tq
            /\ trash_dir = S.trash_dir
            /\ doc_files = S.doc_files
            /\ calls = S.calls
            /\ err = S.err
            /\ pc = "fix_broken"
            /\ last = NoOp
            /\ pre = S

SpecFixBroken == InitFixBroken /\ [][TryToFixAllBrokenRefs]_vars

(***************************************************************************)
(* The construction on its own, on worlds in which a declared path may be  *)
(* a file as written, a file of the core data folder, and a file under its *)
(* percent-decoded name, in every combination.                             *)
(***************************************************************************)
ResolvableFiles ==
    {InWorld(<<"a", "%20", "b">>, "png"),
     MkPath("core", WorldDir, <<"a", "%20", "b">>, "png"),
     InWorld(<<"a", " ", "b">>, "png"),
     MkPath("core", WorldDir, <<"a", " ", "b">>, "png")}

InitResolve ==
    \E d \in Disks(ResolvableFiles) :
    \E dl \in SeqsUpTo({[html |-> h, srcs |-> <<p>>] :
                            h \in BOOLEAN,
                            p \in {InWorld(<<"a", "%20", "b">>, "png"),
                                   InWorld(<<"a", " ", "b">>, "png")}}, MaxLeaves) :
        LET docs == Documents(<<>>, dl, PlainNames)
            S == [disk |-> d, files |-> <<>>, refs |-> <<>>, tq |-> {},
                  trash_dir |-> FALSE, doc_files |-> DocFilesOf(docs),
                  calls |-> <<>>, err |-> ""]
        IN  /\ disk = S.disk
            /\ files = S.files
            /\ all_img_refs = S.refs
            /\ trash_queue = S.tq
            /\ trash_dir = S.trash_dir
            /\ doc_files = S.doc_files
            /\ calls = S.calls
            /\ err = S.err
            /\ pc = "construct"
            /\ last = NoOp
            /\ pre = S

SpecResolve == InitResolve /\ [][Construct]_vars

(***************************************************************************)
(* The properties.  last names the pass that has just run and pre is the   *)
(* program state that pass started from.                                   *)
(***************************************************************************)
Range(s) == {s[i] : i \in 1..Len(s)}

\* the document leaf a reference was found in
LeafOf(docs, ref) ==
    get_nested_dict_recursive(
        docs[ref.ref_file_path].recs[IF ref.ref_file_type = "db" THEN ref.ref_file_line + 1
                                     ELSE 1],
        ref.json_address).leaf

\* where a leaf names a path
Occurrences(leaf, path) == {i \in 1..Len(leaf.srcs) : leaf.srcs[i] = path}

\* a file of the managed tree
InManagedTree(p) == p # NoPath /\ p.root = "rel" /\ InParents(WorldDir, p)

\* the characters of a name
Ascii(tok) ==
    CASE tok = "worlds" -> <<119, 111, 114, 108, 100, 115>>
      [] tok = "w" -> <<119>>
      [] tok = "modules" -> <<109, 111, 100, 117, 108, 101, 115>>
      [] tok = "modulesx" -> <<109, 111, 100, 117, 108, 101, 115, 120>>
      [] tok = "worldsx" -> <<119, 111, 114, 108, 100, 115, 120>>
      [] tok = "icons" -> <<105, 99, 111, 110, 115>>
      [] tok = "sub" -> <<115, 117, 98>>
      [] tok = "_trash" -> <<95, 116, 114, 97, 115, 104>>
      [] tok = "http:" -> <<104, 116, 116, 112, 58>>
      [] tok = "https:" -> <<104, 116, 116, 112, 115, 58>>
      [] tok = "host" -> <<104, 111, 115, 116>>
      [] tok = "a" -> <<97>>
      [] tok = "b" -> <<98>>
      [] tok = " " -> <<32>>
      [] tok = "%20" -> <<37, 50, 48>>
      [] tok = "-" -> <<45>>
      [] tok = "_" -> <<95>>
      [] tok = "png" -> <<112, 110, 103>>
      [] tok = "jpeg" -> <<106, 112, 101, 103>>
      [] tok = "jpg" -> <<106, 112, 103>>
      [] tok = "webp" -> <<119, 101, 98, 112>>
      [] tok = "None" -> <<78, 111, 110, 101>>
      [] OTHER -> <<>>

RECURSIVE Concat(_)
Concat(toks) == IF toks = <<>> THEN <<>> ELSE Ascii(Head(toks)) \o Concat(Tail(toks))

RECURSIVE DirString(_)
DirString(dir) == IF dir = <<>> THEN <<>> ELSE Ascii(Head(dir)) \o <<47>> \o DirString(Tail(dir))

\* str(path), as character codes
PathString(p) == DirString(p.dir) \o Concat(p.stem) \o <<46>> \o Ascii(p.ext)

\* s < t for strings
StrLess(s, t) ==
    \E i \in 1..Len(t) :
        /\ i <= Len(s) + 1
        /\ SubSeq(s, 1, i - 1) = SubSeq(t, 1, i - 1)
        /\ i = Len(s) + 1 \/ s[i] < t[i]

\* the smallest path string of a group of paths
Smallest(paths) ==
    CHOOSE p \in Range(paths) :
        \A q \in Range(paths) : q = p \/ StrLess(PathString(p), PathString(q))

\* C1: after move_all_imgs_in_trash_queue_to_trash, and before any purge, every
\* file the pass took away from its place is in the trash folder under its base
\* name with the bytes it had, and every file that was in the trash folder before
\* the pass is still there with the bytes it had.
C1_MovedFilesStayRecoverable ==
    last.op = "move" =>
        /\ \A p \in DOMAIN pre.disk \ DOMAIN disk :
              /\ TrashPath(p) \in DOMAIN disk
              /\ disk[TrashPath(p)] = pre.disk[p]
        /\ \A q \in DOMAIN pre.disk :
              InParents(TrashDir, q) => q \in DOMAIN disk /\ disk[q] = pre.disk[q]

\* the runs of the encoder made by the pass that has just run
NewCalls == {calls[c] : c \in Len(pre.calls) + 1..Len(calls)}

\* C2: after convert_all_images_to_webp_and_update_refs, for every path whose
\* conversion failed (the encoder ended with a non-zero exit code or left no
\* destination file), every reference of that path is as it was, its leaf names
\* the path where it did, and the path has not been added to the trash queue.
C2_FailedConversionLeavesPathAlone ==
    last.op = "convert" =>
        \A call \in NewCalls :
            (call.rc # 0 \/ ~call.written) =>
                /\ \A n \in 1..Len(pre.refs) :
                      pre.refs[n].ref_path = call.path =>
                          /\ all_img_refs[n] = pre.refs[n]
                          /\ Occurrences(LeafOf(files, pre.refs[n]), call.path)
                                = Occurrences(LeafOf(pre.files, pre.refs[n]), call.path)
                /\ call.path \in trash_queue => call.path \in pre.tq

\* the image files of the managed tree, outside the trash folder, that no
\* reference resolves to
Unreferenced(S) ==
    {p \in DOMAIN S.disk :
        /\ InManagedTree(p)
        /\ ~InParents(TrashDir, p)
        /\ \A n \in 1..Len(S.refs) : S.refs[n].img_path_on_disk # p}

\* C3: when the pipeline has moved the trash queue and nothing has been purged,
\* every image file of the managed tree that no reference resolves to was queued,
\* is gone from its place and is in the trash folder with the bytes it had.
C3_UnreferencedImagesAreHeld ==
    (last.op = "move" /\ err = "") =>
        \A p \in Unreferenced(pre) :
            /\ p \in trash_queue
            /\ p \notin DOMAIN disk
            /\ TrashPath(p) \in DOMAIN disk
            /\ disk[TrashPath(p)] = pre.disk[p]

\* C4: after fix_all_sets_of_duplicated_images, for every content hash that was
\* held under two or more paths, every reference of that hash declares the
\* smallest path string of the group and every other path of the group is in the
\* trash queue.
C4_CanonicalIsSmallestPath ==
    (last.op = "dedupe" /\ err = "") =>
        \A h \in Range(get_duplicated_images(pre.refs)) :
            LET group == PathKeysOfHash(pre.refs, h)
                canonical == Smallest(group)
            IN  /\ \A n \in 1..Len(pre.refs) :
                      pre.refs[n].img_hash = h => all_img_refs[n].ref_path = canonical
                /\ \A q \in Range(group) \ {canonical} : q \in trash_queue

Underscored(p, k, encoding) ==
    [p EXCEPT !.stem = p.stem \o [i \in 1..k |-> "_"], !.ext = encoding]

\* the references that resolve to a file of the managed tree whose extension is
\* not the one of its encoding
Mismatched(S) ==
    {n \in 1..Len(S.refs) :
        /\ S.refs[n].img_exists
        /\ InManagedTree(S.refs[n].img_path_on_disk)
        /\ S.refs[n].correct_extension = "False"}

\* C6: after fix_incorrect_file_extensions every file that was on disk is as it
\* was, and for every reference that resolved to a file of the managed tree with
\* the wrong extension there is a new file <stem><k underscores>.<encoding>
\* beside it, k the smallest number whose name was free, holding the bytes of the
\* file, to which the reference now resolves.
C6_MismatchedFilesAreCopiedAndRepointed ==
    last.op = "fix_ext" =>
        /\ \A p \in DOMAIN pre.disk : p \in DOMAIN disk /\ disk[p] = pre.disk[p]
        /\ \A n \in Mismatched(pre) :
              LET old == pre.refs[n].img_path_on_disk
                  encoding == pre.refs[n].img_encoding
              IN  \E k \in 0..Cardinality(DOMAIN disk) :
                      /\ Underscored(old, k, encoding) \notin DOMAIN pre.disk
                      /\ \A j \in 0..k - 1 : Underscored(old, j, encoding) \in DOMAIN disk
                      /\ Underscored(old, k, encoding) \in DOMAIN disk
                      /\ disk[Underscored(old, k, encoding)] = pre.disk[old]
                      /\ all_img_refs[n].img_path_on_disk = Underscored(old, k, encoding)

SubstituteWorlds(p) == [p EXCEPT !.dir[1] = "worlds"]

\* C8: after try_to_fix_all_broken_refs, for every reference that was unresolved,
\* not a web link, and declared under the leading segment modules: if the path
\* with worlds in place of modules was a file, the reference declares that path
\* and is resolved and its leaf names that path instead; otherwise the reference
\* and its leaf are as they were.
C8_LegacyPathSubstitution ==
    last.op = "fix_broken" =>
        \A n \in 1..Len(pre.refs) :
            LET ref == pre.refs[n] IN
            (/\ ref.img_path_on_disk = NoPath
             /\ ~StartsWithHttp(ref.ref_path)
             /\ ref.ref_path.dir # <<>>
             /\ ref.ref_path.dir[1] = "modules") =>
                IF is_file(pre.disk, SubstituteWorlds(ref.ref_path))
                THEN /\ all_img_refs[n].ref_path = SubstituteWorlds(ref.ref_path)
                     /\ all_img_refs[n].img_exists
                     /\ LeafOf(files, ref)
                           = str_replace(LeafOf(pre.files, ref), ref.ref_path,
                                         SubstituteWorlds(ref.ref_path))
                ELSE /\ all_img_refs[n] = ref
                     /\ LeafOf(files, ref) = LeafOf(pre.files, ref)

\* C9: in every state get_broken_refs holds every reference that has no path on
\* disk and whose declared path does not start with http.
C9_UnresolvedRefsAreBroken ==
    \A n \in 1..Len(all_img_refs) :
        (/\ all_img_refs[n].img_path_on_disk = NoPath
         /\ ~StartsWithHttp(all_img_refs[n].ref_path)) =>
            n \in Range(get_broken_refs(all_img_refs, trash_queue))

\* a pass has run and left an unresolved reference that is not a web link, beside
\* a web link that is unresolved too
C9_Witness ==
    /\ last.op # "init"
    /\ \E n \in Range(get_broken_refs(all_img_refs, trash_queue)) :
          all_img_refs[n].img_path_on_disk = NoPath
    /\ \E n \in 1..Len(all_img_refs) :
          /\ all_img_refs[n].img_path_on_disk = NoPath
          /\ StartsWithHttp(all_img_refs[n].ref_path)

\* C11: move_all_imgs_in_trash_queue_to_trash raises nothing and leaves every file
\* that is not in the managed tree in its place with its bytes, whatever the queue
\* holds; and when no queued path names a file, literally or percent-decoded, the
\* disk is as it was.
C11_MoveTouchesOnlyManagedFiles ==
    last.op = "move" =>
        /\ err = ""
        /\ \A p \in DOMAIN pre.disk :
              ~InManagedTree(p) => p \in DOMAIN disk /\ disk[p] = pre.disk[p]
        /\ (\A q \in pre.tq : ~is_file(pre.disk, q) /\ ~is_file(pre.disk, Unquote(q)))
              => disk = pre.disk

\* the bytes file p had before the last pass are neither at p nor in the trash
\* folder under the base name of p
Lost(p) ==
    /\ ~(p \in DOMAIN disk /\ disk[p] = pre.disk[p])
    /\ ~(TrashPath(p) \in DOMAIN disk /\ disk[TrashPath(p)] = pre.disk[p])

\* C12: empty_trash with its flag false leaves the disk and the trash folder as
\* they were, and no operation other than empty_trash with its flag true makes a
\* file disappear: after it every file is at its place or in the trash folder,
\* with its bytes.
C12_OnlyPurgeDeletes ==
    /\ (last.op = "purge" /\ ~last.flag) => disk = pre.disk /\ trash_dir = pre.trash_dir
    /\ ~(last.op = "purge" /\ last.flag) => \A p \in DOMAIN pre.disk : ~Lost(p)

\* C13: after convert_all_images_to_webp_and_update_refs, for every run of the
\* encoder that ended with exit code 0 and its destination present, every
\* reference of the converted path declares the destination and resolves to it,
\* its leaf names the destination where it named the path, and the path is in the
\* trash queue.
C13_ConvertedPathIsRepointedAndQueued ==
    last.op = "convert" =>
        \A call \in NewCalls :
            (call.rc = 0 /\ call.written) =>
                /\ \A n \in 1..Len(pre.refs) :
                      pre.refs[n].ref_path = call.path =>
                          /\ all_img_refs[n].ref_path = call.destination
                          /\ all_img_refs[n].img_path_on_disk = call.destination
                          /\ Occurrences(LeafOf(pre.files, pre.refs[n]), call.path)
                                \subseteq Occurrences(LeafOf(files, pre.refs[n]),
                                                      call.destination)
                /\ call.path \in trash_queue

\* the stages in the order stated for the run, and the pass each one runs
StagesInOrder ==
    <<"construct", "fix_broken", "fix_ext", "dedupe1", "convert", "dedupe2", "export",
      "gc", "move", "purge", "done">>

PassOfStage ==
    <<"construct", "fix_broken", "fix_ext", "dedupe", "convert", "dedupe", "export",
      "gc", "move", "purge">>

\* every document file holds the documents as they are in memory
Persisted ==
    \A d \in 1..Len(files) : doc_files[DocFile(files[d].name)] = Lines(files[d].recs)

\* C14: the run goes through its stages in the order load and scan, legacy-path
\* substitution, extension repair, consolidation, conversion, consolidation,
\* persist, orphans, move, purge: a step that leaves a stage runs the pass of that
\* stage and enters the next one; when files have been moved the documents are
\* persisted; the purge is the last pass.
C14_StagesRunInOrder ==
    /\ [][\E k \in 1..Len(PassOfStage) :
              /\ pc = StagesInOrder[k]
              /\ \/ pc' = pc
                 \/ pc' = StagesInOrder[k + 1] /\ last'.op = PassOfStage[k]]_vars
    /\ [](last.op = "move" => Persisted /\ pc = "purge")
    /\ [](last.op = "purge" => pc = "done")

\* a run has gone through all its stages
C14_Witness ==
    /\ pc = "done"
    /\ last.op = "purge"
    /\ err = ""
    /\ calls # <<>>
    /\ trash_queue # {}

\* some line of some document file is no JSON text
SomeLineMalformed(texts) ==
    \E f \in DOMAIN texts : \E i \in 1..Len(texts[f]) : ~CanParse(texts[f][i])

Unmutated(S) ==
    /\ S.files # <<>>
    /\ \A d \in 1..Len(S.files) :
           S.doc_files[DocFile(S.files[d].name)] = Lines(S.files[d].recs)

\* C16: when no reference was mutated, the export completes and writes, for a db
\* document, one compact JSON value per record in order and, for a json
\* document, the one bare value; the load that follows the export completes and
\* yields the record values that were exported.
C16_ExportThenLoadIsTheSame ==
    /\ (last.op = "export" /\ Unmutated(pre)) =>
           /\ err = ""
           /\ \A d \in 1..Len(files) :
                  LET text == doc_files[DocFile(files[d].name)] IN
                  /\ Len(text) = Len(files[d].recs)
                  /\ \A i \in 1..Len(text) : text[i] = json_dumps(files[d].recs[i])
                  /\ files[d].ftype = "json" => Len(text) = 1
    /\ last.op = "load_data" => err = "" /\ files = pre.files

\* C17: after export_all_json_and_db_files, every document whose file was
\* written or emptied, and every document when the export completed, has a
\* backup <name>.<ext>bak that holds the lines the document file had before the
\* export.
C17_BackupHoldsThePreviousFile ==
    last.op = "export" =>
        \A d \in 1..Len(files) :
            LET path == DocFile(files[d].name)
                bak == BakFile(files[d].name)
            IN  (err = "" \/ doc_files[path] # pre.doc_files[path]) =>
                    /\ bak \in DOMAIN doc_files
                    /\ doc_files[bak] = pre.doc_files[path]

\* an export has completed that rewrote a document whose references had changed
C17_Witness ==
    /\ last.op = "export"
    /\ err = ""
    /\ \E d \in 1..Len(files) :
           /\ doc_files[DocFile(files[d].name)] # pre.doc_files[DocFile(files[d].name)]
           /\ doc_files[BakFile(files[d].name)] = pre.doc_files[DocFile(files[d].name)]

\* the ids of the references of a scan
RefIds(refs) == {refs[n].ref_id : n \in 1..Len(refs)}

C19_RestoreEmptiesTheTrashFolder ==
    last.op = "restore" =>
        /\ err = ""
        /\ \A p \in DOMAIN disk : ~InParents(TrashDir, p)
        /\ \A p \in DOMAIN pre.disk :
               InParents(TrashDir, p) =>
                   \E q \in DOMAIN disk : InManagedTree(q) /\ disk[q] = pre.disk[p]

\* C20: when the pipeline has run to its end without the purge, the file of
\* every reference whose exists flag is true is a file at the reference's path
\* on disk.
C20_ReferencedFilesSurviveThePipeline ==
    (pc = "done" /\ last.op = "purge" /\ ~last.flag /\ err = "") =>
        \A n \in 1..Len(all_img_refs) :
            all_img_refs[n].img_exists => is_file(disk, all_img_refs[n].img_path_on_disk)

\* C21: after fix_incorrect_file_extensions, every reference whose path was
\* renamed has, at its own address, the leaf it had before with the old path
\* replaced by the new path.
C21_EachLeafKeepsItsOwnContent ==
    (last.op = "fix_ext" /\ err = "") =>
        \A n \in 1..Len(all_img_refs) :
            all_img_refs[n].ref_path # pre.refs[n].ref_path =>
                LeafOf(files, all_img_refs[n]) =
                    str_replace(LeafOf(pre.files, pre.refs[n]), pre.refs[n].ref_path,
                                all_img_refs[n].ref_path)

\* C22: every reference, found in the json document or in a record of the db
\* document, can be read and written at its address: get_img_ref_content
\* returns the leaf the reference was found in, and no pass raises TypeError
\* when it reads or replaces a leaf.
C22_JsonLeavesAreReadAndWritten ==
    /\ \A n \in 1..Len(all_img_refs) :
           /\ CanReach(files, all_img_refs[n])
           /\ get_img_ref_content(files, all_img_refs[n]) = LeafOf(files, all_img_refs[n])
    /\ err # "TypeError"

\* the file the move step takes for a queued path: the path itself, or the path
\* with its stem percent-decoded when only that is a file
Designated(S, queued) ==
    LET unquoted == [queued EXCEPT !.stem = [i \in 1..Len(queued.stem) |->
                                                UnquoteTok(queued.stem[i])]]
    IN  IF is_file(S.disk, queued) THEN {queued}
        ELSE IF is_file(S.disk, unquoted) THEN {unquoted}
        ELSE {}

\* C23: after fix_all_sets_of_duplicated_images no path it added to the trash
\* queue designates, literally or with its stem percent-decoded, the file that
\* a reference resolves to.
C23_QueuedDuplicatesAreUnreferenced ==
    (last.op = "dedupe" /\ err = "") =>
        \A q \in trash_queue \ pre.tq :
            \A n \in 1..Len(all_img_refs) :
                all_img_refs[n].img_exists =>
                    all_img_refs[n].img_path_on_disk \notin Designated(State, q)

\* C24: after convert_all_images_to_webp_and_update_refs, two references that
\* resolved to files with different bytes do not resolve to the same file, and
\* a reference that was repointed resolves to the webp encoding of the file it
\* resolved to before.
C24_ConvertedRefsKeepTheirOwnPicture ==
    (last.op = "convert" /\ err = "") =>
        \A n, m \in 1..Len(all_img_refs) :
            (/\ pre.refs[n].img_exists
             /\ pre.refs[m].img_exists
             /\ pre.disk[pre.refs[n].img_path_on_disk] # pre.disk[pre.refs[m].img_path_on_disk])
            => /\ all_img_refs[n].img_exists /\ all_img_refs[m].img_exists
                   => all_img_refs[n].img_path_on_disk # all_img_refs[m].img_path_on_disk
               /\ (all_img_refs[n].ref_path # pre.refs[n].ref_path /\ all_img_refs[n].img_exists)
                   => disk[all_img_refs[n].img_path_on_disk] =
                          webp_of(pre.disk[pre.refs[n].img_path_on_disk])

\* C25: after the scan of the construction, all_img_refs_by_id has one entry
\* for each reference of all_img_refs: no two references have the same id.
C25_OneIdPerReference ==
    (last.op = "construct" /\ err = "") =>
        /\ Cardinality(DOMAIN all_img_refs_by_id(all_img_refs)) = Len(all_img_refs)
        /\ \A n, m \in 1..Len(all_img_refs) :
               all_img_refs[n].ref_id = all_img_refs[m].ref_id => n = m

\* every string of a value with its address, depth first in document order,
\* through objects and arrays alike
RECURSIVE StringLeaves(_, _)
RECURSIVE StringLeavesOfKids(_, _, _, _)
StringLeaves(value, at) ==
    IF value.t \in {"str", "sur"} THEN <<[addr |-> at, val |-> value]>>
    ELSE IF value.t \in {"obj", "arr"} THEN StringLeavesOfKids(value.kids, 1, value.t, at)
    ELSE <<>>

StringLeavesOfKids(kids, n, t, at) ==
    IF n > Len(kids) THEN <<>>
    ELSE StringLeaves(kids[n].v,
                      at \o <<IF t = "obj" THEN AKey(kids[n].k) ELSE AIdx(n - 1)>>)
         \o StringLeavesOfKids(kids, n + 1, t, at)

\* the references found in record rec of document d
RECURSIVE RefsIn(_, _, _, _)
RefsIn(refs, n, d, rec) ==
    IF n > Len(refs) THEN <<>>
    ELSE (IF refs[n].ref_file_path = d /\ refs[n].ref_file_line \in {rec - 1, -1}
          THEN <<refs[n]>> ELSE <<>>)
         \o RefsIn(refs, n + 1, d, rec)

\* C26: after the scan of the construction, the addresses of the references of
\* each record are, in order, the addresses of the record's string leaves that
\* hold a lower-case image reference, at every depth and through objects and
\* arrays alike.
C26_EveryLeafIsVisited ==
    (last.op = "construct" /\ err = "") =>
        \A d \in 1..Len(files) : \A rec \in 1..Len(files[d].recs) :
            LET found == RefsIn(all_img_refs, 1, d, rec)
                leaves == StringLeaves(files[d].recs[rec], <<>>)
                lower == SelectSeq(leaves, LAMBDA x :
                             x.val.t = "str" /\ MatchesImgRegex(x.val.leaf))
            IN  UniqueInOrder([n \in 1..Len(found) |-> found[n].json_address])
                    = [n \in 1..Len(lower) |-> lower[n].addr]

\* the paths a leaf should yield: itself when it is a bare path with an image
\* extension in any letter case, its distinct sources in order when it is markup
Expected(leaf) ==
    IF leaf.html THEN UniqueInOrder(leaf.srcs)
    ELSE IF leaf.srcs # <<>> /\ LowerTok(leaf.srcs[1].ext) \in ImgExts THEN leaf.srcs
    ELSE <<>>

\* C27: after the scan of the construction, every string leaf the walker
\* reaches has yielded the references expected of it: one for a bare path with
\* an image extension in any letter case, one per distinct source, in order,
\* for markup.
C27_OccurrencesOfALeaf ==
    (last.op = "construct" /\ err = "") =>
        \A d \in 1..Len(files) : \A rec \in 1..Len(files[d].recs) :
            LET items == dict_walker(files[d].recs[rec], <<>>)
                found == RefsIn(all_img_refs, 1, d, rec)
            IN  \A i \in 1..Len(items) :
                    items[i].val.t = "str" =>
                        LET here == SelectSeq(found, LAMBDA r : r.json_address = items[i].addr)
                        IN  [n \in 1..Len(here) |-> here[n].ref_path]
                                = Expected(items[i].val.leaf)

\* C28: when fix_incorrect_file_extensions is run again right after it has
\* run, the second run copies no file and changes no reference and no document
\* leaf.
C28_SecondExtensionRepairChangesNothing ==
    (last.op = "fix_ext" /\ last.reruns >= 1 /\ err = "") =>
        /\ disk = pre.disk
        /\ all_img_refs = pre.refs
        /\ files = pre.files

\* C29: after try_to_fix_all_broken_refs, every reference whose declared path
\* was substituted had a declared path whose first segment is modules, and
\* its new path is that path with the first segment replaced by worlds and
\* every other segment as it was.
C29_OnlyTheFirstSegmentIsSubstituted ==
    (last.op = "fix_broken" /\ err = "") =>
        \A n \in 1..Len(all_img_refs) :
            all_img_refs[n].ref_path # pre.refs[n].ref_path =>
                /\ pre.refs[n].ref_path.dir # <<>>
                /\ pre.refs[n].ref_path.dir[1] = "modules"
                /\ all_img_refs[n].ref_path = SubstituteWorlds(pre.refs[n].ref_path)

\* the candidates of a declared path in the order of the claim: as written,
\* under the core data folder, percent-decoded
Candidates(p) == <<p, CoreJoin(p), Unquote(p)>>

\* C30: after the scan of the construction, every reference resolves to the
\* first of the candidates of its declared path that is a file, and is
\* unresolved (no disk path, exists false) when none is.
C30_FirstExistingCandidateWins ==
    (last.op = "construct" /\ err = "") =>
        \A n \in 1..Len(all_img_refs) :
            LET cands == Candidates(all_img_refs[n].ref_path)
                there == {i \in 1..Len(cands) : is_file(disk, cands[i])}
            IN  IF there = {}
                THEN ~all_img_refs[n].img_exists /\ all_img_refs[n].img_path_on_disk = NoPath
                ELSE /\ all_img_refs[n].img_exists
                     /\ \E i \in there :
                            /\ \A j \in there : i <= j
                            /\ all_img_refs[n].img_path_on_disk = cands[i]

\* a scanned reference whose declared path is no file, while both the path
\* under the core data folder and the percent-decoded path are files
C30_Witness ==
    /\ last.op = "construct"
    /\ err = ""
    /\ \E n \in 1..Len(all_img_refs) :
           LET p == all_img_refs[n].ref_path IN
           /\ ~is_file(disk, p)
           /\ is_file(disk, CoreJoin(p))
           /\ is_file(disk, Unquote(p))
           /\ Unquote(p) # p
           /\ all_img_refs[n].img_path_on_disk = CoreJoin(p)

\* C10: in every state a reference with a content hash resolves to a file of the
\* managed tree.
C10_OnlyManagedFilesAreHashed ==
    \A n \in 1..Len(all_img_refs) :
        all_img_refs[n].img_hash # NoHash =>
            InManagedTree(all_img_refs[n].img_path_on_disk)
====
